---- MODULE Spec2Model ----
(***************************************************************************)
(* Model of the NutzyCraft Pilot AI service (AI-Service/main.py).          *)
(*                                                                         *)
(* Strings are sequences of one-character strings, so that the regular     *)
(* expressions, split/strip/lower and len() of the source are computed     *)
(* character by character.                                                 *)
(***************************************************************************)
EXTENDS Integers, Sequences, FiniteSets, TLC

\* arg, ret: the argument and the results of the call under study (for a
\*   request: the URL posted and the HTTP response)
\* pc:     the position of the request handler, "idle" between requests
\* env:    the environment of the process: whether YOUTUBE_API_KEY and
\*         GROQ_API_KEY are set, and whether the packages
\*         youtube_transcript_api and googleapiclient can be imported
\* nlp:    nlp_preprocessor.nlp, the lazily loaded spaCy model
\* client: groq_analyzer.client, the lazily created Groq client
\* frame:  the locals of the handler and of the pipeline stage it is in
\* log:    the components and external services the request has called
VARIABLES arg, ret, pc, env, nlp, client, frame, log

vars == <<arg, ret, pc, env, nlp, client, frame, log>>

service == <<pc, env, nlp, client, frame, log>>

\* the value of a reference that is not set; a reference that is set holds
\* the class of its object and the object's number
None == [class |-> "None", instance |-> 0]

\* no service is running: the state of the specifications that study one
\* function by itself
NoService ==
    /\ pc = "none"
    /\ env = [YOUTUBE_API_KEY |-> FALSE, GROQ_API_KEY |-> FALSE,
              youtube_transcript_api |-> FALSE, googleapiclient |-> FALSE]
    /\ nlp = None
    /\ client = None
    /\ frame = <<>>
    /\ log = <<>>

(***************************************************************************)
(* Character classes of Python's re module, restricted to ASCII.           *)
(***************************************************************************)
Digits == {"0", "1", "2", "3", "4", "5", "6", "7", "8", "9"}

UpperLetters == <<"A", "B", "C", "D", "E", "F", "G", "H", "I", "J", "K", "L", "M",
                  "N", "O", "P", "Q", "R", "S", "T", "U", "V", "W", "X", "Y", "Z">>

LowerLetters == <<"a", "b", "c", "d", "e", "f", "g", "h", "i", "j", "k", "l", "m",
                  "n", "o", "p", "q", "r", "s", "t", "u", "v", "w", "x", "y", "z">>

UpperSet == {UpperLetters[k] : k \in 1..26}

LowerSet == {LowerLetters[k] : k \in 1..26}

\* the ASCII control characters 0x0b, 0x1c, 0x1d, 0x1e and 0x1f, for which a
\* string has no escape: each is one character of a text
VT == "<0x0b>"

FS == "<0x1c>"

GS == "<0x1d>"

RS == "<0x1e>"

US == "<0x1f>"

\* \s of re, and the characters str.strip() removes
Whitespace == {" ", "\t", "\n", "\r", "\f", VT, FS, GS, RS, US}

\* \w of re
WordChars == UpperSet \cup LowerSet \cup Digits \cup {"_"}

\* str.lower() on one character
LowerChar(c) ==
    IF c \in UpperSet
    THEN LowerLetters[CHOOSE k \in 1..26 : UpperLetters[k] = c]
    ELSE c

\* str.lower()
Lower(s) == [k \in 1..Len(s) |-> LowerChar(s[k])]

\* s[i] or a non-character outside the string
At(s, i) == IF i >= 1 /\ i <= Len(s) THEN s[i] ELSE "<none>"

\* length of the longest run of characters of class C starting at s[i]
Run(s, i, C) ==
    LET r[j \in 1..(Len(s) + 1)] ==
            IF j > Len(s) \/ s[j] \notin C THEN 0 ELSE 1 + r[j + 1]
    IN  IF i >= 1 /\ i <= Len(s) THEN r[i] ELSE 0

\* \b of re: a word boundary between s[i-1] and s[i]
WordBoundary(s, i) == (At(s, i - 1) \in WordChars) # (At(s, i) \in WordChars)

\* re.sub(pattern, repl, s) for a pattern that never matches the empty
\* string; matches[i] is the length of the match starting at s[i], 0 if none
ReSub(matches, repl, s) ==
    LET candidates == {i \in 1..Len(s) : matches[i] > 0}
        \* f[p]: s[p..] with its leftmost non-overlapping matches replaced
        f[p \in 1..(Len(s) + 1)] ==
            LET later == {i \in candidates : i >= p}
            IN  IF later = {} THEN SubSeq(s, p, Len(s))
                ELSE LET i == CHOOSE i \in later : \A j \in later : i <= j
                     IN  SubSeq(s, p, i - 1) \o repl \o f[i + matches[i]]
    IN  f[1]

(***************************************************************************)
(* NLPPreprocessor.clean_transcript, steps 1 and 2: timestamps and labels  *)
(***************************************************************************)
\* \d+:\d+ at s[i]
MatchMinSec(s, i) ==
    LET d1 == Run(s, i, Digits)
        d2 == Run(s, i + d1 + 1, Digits)
    IN  IF d1 > 0 /\ At(s, i + d1) = ":" /\ d2 > 0 THEN d1 + 1 + d2 ELSE 0

\* \d+:\d+:\d+ at s[i]
MatchHourMinSec(s, i) ==
    LET d1 == Run(s, i, Digits)
        rest == MatchMinSec(s, i + d1 + 1)
    IN  IF d1 > 0 /\ At(s, i + d1) = ":" /\ rest > 0 THEN d1 + 1 + rest ELSE 0

\* \[\d+:\d+:\d+\] at s[i]
MatchBracketedTime(s, i) ==
    LET t == MatchHourMinSec(s, i + 1)
    IN  IF At(s, i) = "[" /\ t > 0 /\ At(s, i + 1 + t) = "]" THEN t + 2 ELSE 0

\* ^[A-Z\s]+: at s[i] under re.MULTILINE
MatchSpeakerLabel(s, i) ==
    LET r == Run(s, i, UpperSet \cup Whitespace)
    IN  IF (i = 1 \/ At(s, i - 1) = "\n") /\ r > 0 /\ At(s, i + r) = ":"
        THEN r + 1 ELSE 0

\* \[.*?\] at s[i]: up to the first "]", which "." reaches only within a line
MatchBracketed(s, i) ==
    LET r == Run(s, i + 1, {c \in {s[k] : k \in 1..Len(s)} : c \notin {"]", "\n"}})
    IN  IF At(s, i) = "[" /\ At(s, i + 1 + r) = "]" THEN r + 2 ELSE 0

SubBracketedTime(s) == ReSub([i \in 1..Len(s) |-> MatchBracketedTime(s, i)], <<>>, s)

SubHourMinSec(s) == ReSub([i \in 1..Len(s) |-> MatchHourMinSec(s, i)], <<>>, s)

SubMinSec(s) == ReSub([i \in 1..Len(s) |-> MatchMinSec(s, i)], <<>>, s)

SubSpeakerLabel(s) == ReSub([i \in 1..Len(s) |-> MatchSpeakerLabel(s, i)], <<>>, s)

SubBracketed(s) == ReSub([i \in 1..Len(s) |-> MatchBracketed(s, i)], <<>>, s)

\* the three re.sub calls of "Remove timestamps", in their order
RemoveTimestamps(s) == SubMinSec(SubHourMinSec(SubBracketedTime(s)))

\* the two re.sub calls of "Remove speaker labels", in their order
RemoveSpeakerLabels(s) == SubBracketed(SubSpeakerLabel(s))

(***************************************************************************)
(* Step 3: filler words, re.IGNORECASE                                     *)
(***************************************************************************)
\* the literal lit at s[i], ignoring case: its length, or 0
MatchLiteral(s, i, lit) ==
    IF /\ i >= 1
       /\ i + Len(lit) - 1 <= Len(s)
       /\ \A k \in 1..Len(lit) : LowerChar(s[i + k - 1]) = lit[k]
    THEN Len(lit) ELSE 0

\* \b(alt1|alt2|...)\b at s[i]: the first alternative, in order, that
\* matches at s[i] with a word boundary on both sides
MatchWordAlternatives(s, i, alts) ==
    LET ok(k) == /\ MatchLiteral(s, i, alts[k]) > 0
                 /\ WordBoundary(s, i + Len(alts[k]))
        hits == {k \in 1..Len(alts) : ok(k)}
    IN  IF WordBoundary(s, i) /\ hits # {}
        THEN Len(alts[CHOOSE k \in hits : \A j \in hits : k <= j])
        ELSE 0

\* MatchHesitationOf as it would be without flags=re.IGNORECASE
MatchHesitationOfCaseSensitive(s, i, c1, c2) ==
    LET r == Run(s, i + 1, {c2})
    IN  IF At(s, i) = c1 /\ r > 0 /\ WordBoundary(s, i + 1 + r) THEN 1 + r ELSE 0

\* one alternative c1 c2+ of \b(um+|uh+|er+|ah+)\b at s[i]
MatchHesitationOf(s, i, c1, c2) ==
    LET r == Run(s, i + 1, {c2, UpperLetters[CHOOSE k \in 1..26 : LowerLetters[k] = c2]})
    IN  IF /\ LowerChar(At(s, i)) = c1
           /\ r > 0
           /\ WordBoundary(s, i + 1 + r)
        THEN 1 + r ELSE 0

HesitationSounds == <<<<"u", "m">>, <<"u", "h">>, <<"e", "r">>, <<"a", "h">>>>

\* \b(um+|uh+|er+|ah+)\b at s[i]
MatchHesitation(s, i) ==
    LET hits == {k \in 1..Len(HesitationSounds) :
                    MatchHesitationOf(s, i, HesitationSounds[k][1], HesitationSounds[k][2]) > 0}
        first == CHOOSE k \in hits : \A j \in hits : k <= j
    IN  IF WordBoundary(s, i) /\ hits # {}
        THEN MatchHesitationOf(s, i, HesitationSounds[first][1], HesitationSounds[first][2])
        ELSE 0

DiscourseFillers ==
    <<<<"l", "i", "k", "e">>,
      <<"y", "o", "u", " ", "k", "n", "o", "w">>,
      <<"i", " ", "m", "e", "a", "n">>,
      <<"b", "a", "s", "i", "c", "a", "l", "l", "y">>,
      <<"a", "c", "t", "u", "a", "l", "l", "y">>,
      <<"l", "i", "t", "e", "r", "a", "l", "l", "y">>>>

HedgeFillers ==
    <<<<"s", "o", "r", "t", " ", "o", "f">>,
      <<"k", "i", "n", "d", " ", "o", "f">>>>

\* \b(like|you know|i mean|basically|actually|literally)\b at s[i]
MatchDiscourse(s, i) == MatchWordAlternatives(s, i, DiscourseFillers)

\* \b(sort of|kind of)\b at s[i]
MatchHedge(s, i) == MatchWordAlternatives(s, i, HedgeFillers)

SubHesitation(s) == ReSub([i \in 1..Len(s) |-> MatchHesitation(s, i)], <<>>, s)

SubDiscourse(s) == ReSub([i \in 1..Len(s) |-> MatchDiscourse(s, i)], <<>>, s)

SubHedge(s) == ReSub([i \in 1..Len(s) |-> MatchHedge(s, i)], <<>>, s)

\* the loop over filler_patterns, in their order
RemoveFillers(s) == SubHedge(SubDiscourse(SubHesitation(s)))

(***************************************************************************)
(* Step 4: duplicate sentences                                             *)
(***************************************************************************)
\* str.split(sep) for a one-character separator
Split(s, sep) ==
    LET at == {i \in 1..Len(s) : s[i] = sep}
        \* the position of the k-th separator; 0 and Len(s) + 1 bound the string
        cut(k) == IF k = 0 THEN 0
                  ELSE IF k > Cardinality(at) THEN Len(s) + 1
                       ELSE CHOOSE i \in at : Cardinality({j \in at : j <= i}) = k
    IN  [k \in 1..(Cardinality(at) + 1) |-> SubSeq(s, cut(k - 1) + 1, cut(k) - 1)]

\* str.strip()
Strip(s) ==
    LET keep == {k \in 1..Len(s) : s[k] \notin Whitespace}
        lo == CHOOSE k \in keep : \A j \in keep : k <= j
        hi == CHOOSE k \in keep : \A j \in keep : k >= j
    IN  IF keep = {} THEN <<>> ELSE SubSeq(s, lo, hi)

MinSentenceLen == 10

\* sentence_clean as it would be without .lower()
SentenceCleanCaseSensitive(sentence) == Strip(sentence)

\* sentence_clean = sentence.strip().lower()
SentenceClean(sentence) == Lower(Strip(sentence))

\* the loop over sentences: <<seen_sentences, unique_sentences>> after the
\* first n sentences
DedupLoop(sentences, n) ==
    LET f[k \in 0..Len(sentences)] ==
            IF k = 0 THEN <<{}, <<>>>>
            ELSE LET before == f[k - 1]
                     seen == before[1]
                     unique == before[2]
                     sentence_clean == SentenceClean(sentences[k])
                 IN  IF /\ sentence_clean # <<>>
                        /\ sentence_clean \notin seen
                        /\ Len(sentence_clean) > MinSentenceLen
                     THEN <<seen \cup {sentence_clean},
                            Append(unique, Strip(sentences[k]))>>
                     ELSE <<seen, unique>>
    IN  f[n]

UniqueSentences(sentences) == DedupLoop(sentences, Len(sentences))[2]

\* sep.join(parts)
Join(sep, parts) ==
    LET f[k \in 0..Len(parts)] ==
            IF k = 0 THEN <<>>
            ELSE IF k = 1 THEN parts[1]
                 ELSE f[k - 1] \o sep \o parts[k]
    IN  f[Len(parts)]

(***************************************************************************)
(* Step 5: whitespace and punctuation                                      *)
(***************************************************************************)
MatchSpaces(s, i) == Run(s, i, Whitespace)

MatchPeriods(s, i) == Run(s, i, {"."})

MatchCommas(s, i) == Run(s, i, {","})

SubSpaces(s) == ReSub([i \in 1..Len(s) |-> MatchSpaces(s, i)], <<" ">>, s)

SubPeriods(s) == ReSub([i \in 1..Len(s) |-> MatchPeriods(s, i)], <<".">>, s)

SubCommas(s) == ReSub([i \in 1..Len(s) |-> MatchCommas(s, i)], <<",">>, s)

\* the three re.sub calls of "Clean up extra whitespace and punctuation"
CollapseRuns(s) == SubCommas(SubPeriods(SubSpaces(s)))

(***************************************************************************)
(* NLPPreprocessor.clean_transcript                                        *)
(***************************************************************************)
\* Outcome of the spaCy pass (lines 337-351), whose model and token
\* attributes are outside this repository: it raises, or it yields the text
\* re-assembled from the tokens it keeps.
LinguisticTexts == {<<"k", "e", "p", "t">>}

\* clean_transcript(raw_transcript): the values of its locals when it ends.
\* raised is the ZeroDivisionError of len(text)/len(raw_transcript) in the
\* final log line, the one statement outside the try that can raise.
clean_transcript(raw_transcript, spacy) ==
    LET filtered == RemoveFillers(RemoveSpeakerLabels(RemoveTimestamps(raw_transcript)))
        sentences == Split(filtered, ".")
        unique_sentences == UniqueSentences(sentences)
        collapsed == CollapseRuns(Join(<<".", " ">>, unique_sentences))
        text == Strip(IF spacy.ok THEN spacy.text ELSE collapsed)
    IN  [raw |-> raw_transcript,
         spacy_ok |-> spacy.ok,
         sentences |-> sentences,
         unique_sentences |-> unique_sentences,
         collapsed |-> collapsed,
         raised |-> (Len(raw_transcript) = 0),
         text |-> text]

(***************************************************************************)
(* Inputs of the normalizer: concatenations of at most MaxChunks chunks.   *)
(***************************************************************************)
MaxChunks == 3

Chunks ==
    <<<<"x", "x", "x", "x", "x", "x", "x", "x", "x", "x", "x", ".">>,
      <<VT, "X", "x", "x", "x", "x", "x", "x", "x", "x", "x", "x", " ", ".">>,
      <<"y", "y", "y", "y", "y", "y", "y", "y", "y", "y", " ">>,
      <<"z", "z", "z", "z", "z", "z", "z", "z", "z", "z", "z", " ">>,
      <<"u", "m">>,
      <<"U", "H">>,
      <<"u">>,
      <<",", ",", " ", " ", "\t", ",", ",", " ", " ", ",", ",">>,
      <<"1", ":", "2", "m">>,
      <<"[", "a", "]", "h">>,
      <<".">>>>

Concat(seqs) ==
    LET f[k \in 0..Len(seqs)] == IF k = 0 THEN <<>> ELSE f[k - 1] \o seqs[k]
    IN  f[Len(seqs)]

ChunkChoices == UNION {[1..n -> 1..Len(Chunks)] : n \in 0..MaxChunks}

\* the transcript spelled by a choice of chunks
Transcript(c) == Concat([k \in DOMAIN c |-> Chunks[c[k]]])

(***************************************************************************)
(* NLPPreprocessor._load_spacy: self.nlp, loaded on first use              *)
(***************************************************************************)
MaxInstances == 2

\* the number of the object a successful construction assigns to a
\* reference: the objects of one class are numbered in their order
NewInstance(ref) ==
    IF ref = None THEN 1
    ELSE IF ref.instance < MaxInstances THEN ref.instance + 1 ELSE MaxInstances

\* spacy.load("en_core_web_sm")
SpacyModel(instance) == [class |-> "en_core_web_sm", instance |-> instance]

\* self.nlp after _load_spacy did load
AfterLoadSpacy(load) ==
    IF load \in {"loaded", "downloaded"} THEN SpacyModel(NewInstance(nlp)) ELSE nlp

\* SpacyBehaviours as it would be without "if self.nlp is None"
SpacyBehavioursAlwaysLoad ==
    {[load |-> l, run |-> "not_run", text |-> <<>>] : l \in {"OSError", "ImportError"}}
        \cup {[load |-> l, run |-> "raises", text |-> <<>>] : l \in {"loaded", "downloaded"}}
        \cup {[load |-> l, run |-> "ok", text |-> t] : l \in {"loaded", "downloaded"}, t \in LinguisticTexts}

\* what _load_spacy and self.nlp(...) do in one call of clean_transcript:
\* the model is loaded only while self.nlp is None
SpacyLoads == {"loaded", "downloaded", "OSError", "ImportError"}

SpacyBehaviours ==
    IF nlp = None
    THEN {[load |-> l, run |-> "not_run", text |-> <<>>] : l \in {"OSError", "ImportError"}}
         \cup {[load |-> l, run |-> "raises", text |-> <<>>] : l \in {"loaded", "downloaded"}}
         \cup {[load |-> l, run |-> "ok", text |-> t] : l \in {"loaded", "downloaded"}, t \in LinguisticTexts}
    ELSE {[load |-> "cached", run |-> "raises", text |-> <<>>]}
         \cup {[load |-> "cached", run |-> "ok", text |-> t] : t \in LinguisticTexts}

(***************************************************************************)
(* Specification of the normalizer: a transcript is cleaned, and the       *)
(* result is cleaned once more.                                            *)
(***************************************************************************)
InitClean ==
    /\ NoService
    /\ \E c \in ChunkChoices : arg = Transcript(c)
    /\ ret = <<>>

\* what the try block of step 6 hands on under a behaviour of spaCy: the
\* text of the tokens kept, or nothing when _load_spacy or self.nlp raised
SpacyPass(behaviour) == [ok |-> behaviour.run = "ok", text |-> behaviour.text]

\* nlp_preprocessor.clean_transcript is called: the outcome of the spaCy
\* pass decides the text returned, and _load_spacy assigns self.nlp when it
\* loads the model, whatever the call does afterwards
CleanTranscript ==
    /\ Len(ret) < 2
    /\ Len(ret) > 0 => ~ret[Len(ret)].raised
    /\ \E spacy \in {SpacyPass(b) : b \in SpacyBehaviours} :
          \E r \in {clean_transcript(IF ret = <<>> THEN arg ELSE ret[Len(ret)].text, spacy)} :
             \E behaviour \in SpacyBehaviours :
                /\ SpacyPass(behaviour) = spacy
                /\ ret' = Append(ret, r)
                /\ nlp' = AfterLoadSpacy(behaviour.load)
    /\ UNCHANGED <<arg, pc, env, client, frame, log>>

NextClean == CleanTranscript

SpecClean == InitClean /\ [][NextClean]_vars

(***************************************************************************)
(* Claims about the normalizer                                             *)
(***************************************************************************)
\* the calls of clean_transcript made so far
CleanCalls == {ret[k] : k \in 1..Len(ret)}

\* trimmed, lowercased form of the k-th sentence
NormalForm(sentences, k) == Lower(Strip(sentences[k]))

\* the sentences the claim says survive: long enough, and first of their form
FirstOccurrences(sentences) ==
    {k \in 1..Len(sentences) :
        /\ Len(NormalForm(sentences, k)) > 10
        /\ \A j \in 1..(k - 1) : NormalForm(sentences, j) # NormalForm(sentences, k)}

\* C7: in the deduplication step a sentence is kept iff its trimmed,
\* lowercased form is longer than 10 characters and has not occurred
\* earlier; the kept sentences appear trimmed, in their order of appearance.
C7_DedupKeepsFirstOccurrences ==
    \A r \in CleanCalls :
        LET kept == FirstOccurrences(r.sentences)
        IN  /\ Len(r.unique_sentences) = Cardinality(kept)
            /\ \A k \in kept :
                  r.unique_sentences[Cardinality({j \in kept : j <= k})] = Strip(r.sentences[k])

\* C7 witness: two sentences that differ as written but are identical after
\* trim+lowercase, longer than 10 characters, and only one sentence survives.
C7_Witness ==
    \E r \in CleanCalls :
        /\ Len(r.unique_sentences) = 1
        /\ \E j, k \in 1..Len(r.sentences) :
              /\ j < k
              /\ r.sentences[j] # r.sentences[k]
              /\ Strip(r.sentences[j]) # Strip(r.sentences[k])
              /\ NormalForm(r.sentences, j) = NormalForm(r.sentences, k)
              /\ Len(NormalForm(r.sentences, j)) > 10

\* a standalone word u m+ or u h+, in any letter case, starts at s[i]
StandaloneHesitationAt(s, i) ==
    /\ At(s, i - 1) \notin WordChars
    /\ At(s, i) \in {"u", "U"}
    /\ \E n \in 1..Len(s) :
          /\ At(s, i + n + 1) \notin WordChars
          /\ \/ \A k \in 1..n : At(s, i + k) \in {"m", "M"}
             \/ \A k \in 1..n : At(s, i + k) \in {"h", "H"}

HasStandaloneHesitation(s) == \E i \in 1..Len(s) : StandaloneHesitationAt(s, i)

\* C8: with the linguistic pass skipped, the text clean_transcript returns
\* contains no standalone word um+ or uh+ in any letter case.
C8_NoHesitationInOutput ==
    \A r \in CleanCalls :
        (~r.spacy_ok /\ ~r.raised) => ~HasStandaloneHesitation(r.text)

\* C8 witness: a non-empty output of a transcript in which only timestamp
\* or label removal makes a hesitation word standalone, and in which the
\* collapsing of whitespace and commas changes the kept text.
C8_Witness ==
    \E r \in CleanCalls :
        /\ ~r.spacy_ok /\ ~r.raised
        /\ r.text # <<>>
        /\ Len(r.sentences) = 1
        /\ ~HasStandaloneHesitation(r.raw)
        /\ HasStandaloneHesitation(RemoveSpeakerLabels(RemoveTimestamps(r.raw)))
        /\ r.collapsed # Join(<<".", " ">>, r.unique_sentences)

\* a kept sentence in which u and m (or h) are apart by a run of whitespace
\* and commas only, which the collapsing shortens: the two letters stay
\* apart in the output
C8_WitnessCollapsed ==
    \E r \in CleanCalls :
        /\ ~r.spacy_ok /\ ~r.raised
        /\ Len(r.unique_sentences) = 1
        /\ Len(r.text) < Len(r.unique_sentences[1])
        /\ r.text[1] = "u"
        /\ r.text[Len(r.text)] \in {"m", "h"}
        /\ \A k \in 2..(Len(r.text) - 1) : r.text[k] \in {" ", ","}

\* C9: for a transcript on which clean_transcript returns, cleaning its
\* output again returns a text that is no longer (linguistic pass skipped).
C9_SecondPassNotLonger ==
    (/\ Len(ret) = 2
     /\ ~ret[1].raised
     /\ ~ret[1].spacy_ok
     /\ ~ret[2].spacy_ok)
        => (~ret[2].raised /\ Len(ret[2].text) <= Len(ret[1].text))

\* the part of C9 the code satisfies: a second pass that returns is not longer
C9_NotLongerWhenReturned ==
    (/\ Len(ret) = 2
     /\ ~ret[2].raised
     /\ ~ret[1].spacy_ok
     /\ ~ret[2].spacy_ok)
        => Len(ret[2].text) <= Len(ret[1].text)

\* C10: clean_transcript never raises, whatever the input string.
C10_NeverRaises == \A r \in CleanCalls : ~r.raised

\* the part of C10 the code satisfies: on a non-empty transcript the call
\* returns, and a failed linguistic pass leaves the trimmed step-5 text
C10_FallbackToCollapsed ==
    \A r \in CleanCalls :
        /\ r.raw # <<>> => ~r.raised
        /\ ~r.spacy_ok => r.text = Strip(r.collapsed)

(***************************************************************************)
(* TranscriptExtractor.extract_video_id                                    *)
(***************************************************************************)
\* [a-zA-Z0-9_-]
IdChars == UpperSet \cup LowerSet \cup Digits \cup {"_", "-"}

IdLen == 11

\* the literal lit at s[i], case-sensitively
MatchExact(s, i, lit) ==
    /\ i >= 1
    /\ i + Len(lit) - 1 <= Len(s)
    /\ \A k \in 1..Len(lit) : s[i + k - 1] = lit[k]

\* the patterns list: each pattern is the sequence of its alternative
\* literal prefixes, every one followed by ([a-zA-Z0-9_-]{11})
patterns ==
    <<<<<<"y", "o", "u", "t", "u", "b", "e", ".", "c", "o", "m", "/", "w", "a", "t", "c", "h", "?", "v", "=">>,
        <<"y", "o", "u", "t", "u", ".", "b", "e", "/">>>>,
      <<<<"y", "o", "u", "t", "u", "b", "e", ".", "c", "o", "m", "/", "e", "m", "b", "e", "d", "/">>>>,
      <<<<"y", "o", "u", "t", "u", "b", "e", ".", "c", "o", "m", "/", "v", "/">>>>>>

\* alternative lit of a pattern at s[i]: the start of group 1, or 0
MatchIdAfter(s, i, lit) ==
    IF /\ MatchExact(s, i, lit)
       /\ i + Len(lit) + IdLen - 1 <= Len(s)
       /\ \A k \in 0..(IdLen - 1) : s[i + Len(lit) + k] \in IdChars
    THEN i + Len(lit) ELSE 0

\* a pattern at s[i]: the start of group 1 for its first alternative that
\* matches there, or 0
MatchPatternAt(s, i, pattern) ==
    LET hits == {a \in 1..Len(pattern) : MatchIdAfter(s, i, pattern[a]) > 0}
    IN  IF hits = {} THEN 0
        ELSE MatchIdAfter(s, i, pattern[CHOOSE a \in hits : \A b \in hits : a <= b])

\* re.search(pattern, s).group(1): the group of the leftmost match, or
\* <<>> when there is no match (a group is never empty)
SearchGroup(pattern, s) ==
    LET f[i \in 1..(Len(s) + 1)] ==
            IF i > Len(s) THEN <<>>
            ELSE LET g == MatchPatternAt(s, i, pattern)
                 IN  IF g > 0 THEN SubSeq(s, g, g + IdLen - 1) ELSE f[i + 1]
    IN  f[1]

\* extract_video_id as it would be with the patterns tried last to first
extract_video_id_reversed(youtube_url) ==
    LET f[p \in 0..Len(patterns)] ==
            IF p = 0 THEN [raised |-> "ValueError", value |-> <<>>]
            ELSE LET match == SearchGroup(patterns[p], youtube_url)
                 IN  IF match # <<>> THEN [raised |-> "no", value |-> match]
                     ELSE f[p - 1]
    IN  f[Len(patterns)]

\* extract_video_id(youtube_url): the loop over patterns, then ValueError
extract_video_id(youtube_url) ==
    LET f[p \in 1..(Len(patterns) + 1)] ==
            IF p > Len(patterns) THEN [raised |-> "ValueError", value |-> <<>>]
            ELSE LET match == SearchGroup(patterns[p], youtube_url)
                 IN  IF match # <<>> THEN [raised |-> "no", value |-> match]
                     ELSE f[p + 1]
    IN  f[1]

(***************************************************************************)
(* Inputs of the resolver: at most MaxSegments segments, each a marker     *)
(* followed by a candidate identifier.                                     *)
(***************************************************************************)
MaxSegments == 2

UrlMarkers ==
    <<<<"y", "o", "u", "t", "u", "b", "e", ".", "c", "o", "m", "/", "w", "a", "t", "c", "h", "?", "v", "=">>,
      <<"y", "o", "u", "t", "u", ".", "b", "e", "/">>,
      <<"y", "o", "u", "t", "u", "b", "e", ".", "c", "o", "m", "/", "e", "m", "b", "e", "d", "/">>,
      <<"y", "o", "u", "t", "u", "b", "e", ".", "c", "o", "m", "/", "v", "/">>,
      <<"Y", "o", "u", "t", "u", ".", "b", "e", "/">>,
      <<"&">>>>

UrlBodies ==
    <<<<"d", "Q", "w", "4", "w", "9", "W", "g", "X", "c", "Q">>,
      <<"a", "_", "b", "-", "c", "_", "d", "-", "e", "_", "f", "0">>,
      <<"0", "1", "2", "3", "4", "5", "6", "7", "8", "9">>,
      <<"d", "Q", "w", "4", "w", "!", "W", "g", "X", "c", "Q">>>>

UrlChoices ==
    UNION {[1..n -> (1..Len(UrlMarkers)) \X (1..Len(UrlBodies))] : n \in 0..MaxSegments}

\* the URL spelled by a choice of <<marker, body>> segments
Url(c) == Concat([k \in DOMAIN c |-> UrlMarkers[c[k][1]] \o UrlBodies[c[k][2]]])

InitUrl ==
    /\ NoService
    /\ \E c \in UrlChoices : arg = Url(c)
    /\ ret = <<>>

ExtractVideoId ==
    /\ ret = <<>>
    /\ ret' = <<extract_video_id(arg)>>
    /\ UNCHANGED <<arg, service>>

NextUrl == ExtractVideoId

SpecUrl == InitUrl /\ [][NextUrl]_vars

(***************************************************************************)
(* TranscriptExtractor._parse_iso_duration                                 *)
(***************************************************************************)
\* int() of one decimal digit
DigitValue(c) == CHOOSE v \in 0..9 : <<"0", "1", "2", "3", "4", "5", "6", "7", "8", "9">>[v + 1] = c

\* int(digits); int(group or 0) is 0 for a group that did not take part
ToInt(digits) ==
    LET f[k \in 0..Len(digits)] ==
            IF k = 0 THEN 0 ELSE 10 * f[k - 1] + DigitValue(digits[k])
    IN  f[Len(digits)]

\* (?:(\d+)U)? at s[i]: <<the digits of the group, the position after it>>;
\* the group is skipped when the digits are missing or not followed by U
OptionalComponent(s, i, unit) ==
    LET d == Run(s, i, Digits)
    IN  IF d > 0 /\ At(s, i + d) = unit
        THEN <<SubSeq(s, i, i + d - 1), i + d + 1>>
        ELSE <<<<>>, i>>

SecondsPerHour == 3600

SecondsPerMinute == 60

\* _parse_iso_duration(duration_iso): re.match anchors the pattern at the
\* start of the string only
parse_iso_duration(duration_iso) ==
    IF ~MatchExact(duration_iso, 1, <<"P", "T">>) THEN 0
    ELSE LET h == OptionalComponent(duration_iso, 3, "H")
             m == OptionalComponent(duration_iso, h[2], "M")
             sec == OptionalComponent(duration_iso, m[2], "S")
         IN  ToInt(h[1]) * SecondsPerHour + ToInt(m[1]) * SecondsPerMinute + ToInt(sec[1])

(***************************************************************************)
(* Inputs of the duration parser: at most MaxDurationParts parts.          *)
(***************************************************************************)
MaxDurationParts == 4

DurationParts ==
    <<<<"P", "T">>, <<"1", "H">>, <<"1", "5", "M">>, <<"3", "3", "S">>, <<"0", "S">>, <<"7">>, <<"x">>, <<"P">>>>

DurationChoices == UNION {[1..n -> 1..Len(DurationParts)] : n \in 0..MaxDurationParts}

\* the string spelled by a choice of parts
Duration(c) == Concat([k \in DOMAIN c |-> DurationParts[c[k]]])

InitDuration ==
    /\ NoService
    /\ \E c \in DurationChoices : arg = Duration(c)
    /\ ret = <<>>

ParseIsoDuration ==
    /\ ret = <<>>
    /\ ret' = <<parse_iso_duration(arg)>>
    /\ UNCHANGED <<arg, service>>

NextDuration == ParseIsoDuration

SpecDuration == InitDuration /\ [][NextDuration]_vars

(***************************************************************************)
(* Claims about the resolver and the duration parser                       *)
(***************************************************************************)
\* the matches of pattern p in s: <<start of the match, start of group 1>>
PatternMatches(p, s) ==
    UNION {{<<i, i + Len(patterns[p][a])>> :
               i \in {j \in 1..Len(s) :
                         /\ j + Len(patterns[p][a]) + 10 <= Len(s)
                         /\ SubSeq(s, j, j + Len(patterns[p][a]) - 1) = patterns[p][a]
                         /\ \A k \in 0..10 : s[j + Len(patterns[p][a]) + k] \in IdChars}} :
              a \in 1..Len(patterns[p])}

MatchingPatterns(s) == {p \in 1..Len(patterns) : PatternMatches(p, s) # {}}

\* C5: for a URL that matches a supported pattern, extract_video_id returns
\* the 11 characters captured by the leftmost match of the first pattern, in
\* the order watch?v= / youtu.be/, embed/, /v/, that matches; for a URL that
\* matches no pattern it raises ValueError and returns no identifier.
C5_FirstMatchingPatternWins ==
    ret # <<>> =>
        IF MatchingPatterns(arg) = {}
        THEN ret[1].raised = "ValueError" /\ ret[1].value = <<>>
        ELSE LET p == CHOOSE q \in MatchingPatterns(arg) : \A r \in MatchingPatterns(arg) : q <= r
                 m == CHOOSE x \in PatternMatches(p, arg) :
                         \A y \in PatternMatches(p, arg) : x[1] <= y[1]
             IN  /\ ret[1].raised = "no"
                 /\ Len(ret[1].value) = 11
                 /\ ret[1].value = SubSeq(arg, m[2], m[2] + 10)

\* C5 witness: a URL in which a later pattern matches further left than an
\* earlier pattern and captures another identifier; the earlier pattern wins.
C5_Witness ==
    /\ ret # <<>>
    /\ ret[1].raised = "no"
    /\ \E p, q \in MatchingPatterns(arg) :
          /\ p < q
          /\ \E x \in PatternMatches(p, arg), y \in PatternMatches(q, arg) :
                /\ y[1] < x[1]
                /\ SubSeq(arg, y[2], y[2] + 10) # ret[1].value
                /\ SubSeq(arg, x[2], x[2] + 10) = ret[1].value

\* C5 witness of the failure case: a URL no pattern matches
C5_WitnessInvalid ==
    /\ ret # <<>>
    /\ Len(arg) > 11
    /\ ret[1].raised = "ValueError"

\* s is digits followed by the unit letter, or is empty (component missing)
IsComponent(s, unit) ==
    \/ s = <<>>
    \/ /\ Len(s) >= 2
       /\ s[Len(s)] = unit
       /\ \A k \in 1..(Len(s) - 1) : s[k] \in Digits

\* the number a component stands for, 0 when it is missing
ComponentValue(s) == IF s = <<>> THEN 0 ELSE ToInt(SubSeq(s, 1, Len(s) - 1))

\* the ways to read d as PT[#H][#M][#S]: <<end of #H, end of #M>>
DurationReadings(d) ==
    {x \in (2..Len(d)) \X (2..Len(d)) :
        /\ x[1] <= x[2]
        /\ SubSeq(d, 1, 2) = <<"P", "T">>
        /\ IsComponent(SubSeq(d, 3, x[1]), "H")
        /\ IsComponent(SubSeq(d, x[1] + 1, x[2]), "M")
        /\ IsComponent(SubSeq(d, x[2] + 1, Len(d)), "S")}

\* C6: a string of the form PT[#H][#M][#S] is mapped to
\* hours*3600 + minutes*60 + seconds, missing components counting 0, and
\* every string that is not of that form is mapped to 0.
C6_DurationOfFormElseZero ==
    ret # <<>> =>
        IF DurationReadings(arg) = {}
        THEN ret[1] = 0
        ELSE \E x \in DurationReadings(arg) :
                ret[1] = ComponentValue(SubSeq(arg, 3, x[1])) * 3600
                         + ComponentValue(SubSeq(arg, x[1] + 1, x[2])) * 60
                         + ComponentValue(SubSeq(arg, x[2] + 1, Len(arg)))

\* the half of C6 the code satisfies: the value of a string of the form
C6_DurationOfForm ==
    (ret # <<>> /\ DurationReadings(arg) # {}) =>
        \E x \in DurationReadings(arg) :
            ret[1] = ComponentValue(SubSeq(arg, 3, x[1])) * 3600
                     + ComponentValue(SubSeq(arg, x[1] + 1, x[2])) * 60
                     + ComponentValue(SubSeq(arg, x[2] + 1, Len(arg)))

(***************************************************************************)
(* TranscriptExtractor.extract_transcript and its two strategies           *)
(***************************************************************************)
CaptionTextA ==
    <<"U", "m", ",", " ", "t", "o", "d", "a", "y", " ", "w", "e", " ", "a", "r", "e", " ",
    "g", "o", "i", "n", "g", " ", "t", "o", " ", "t", "a", "l", "k", " ", "a", "b",
    "o", "u", "t", " ", "b", "i", "n", "a", "r", "y", " ", "t", "r", "e", "e", "s",
    ".">>

CaptionTextB ==
    <<"A", " ", "t", "r", "e", "e", " ", "i", "s", ",", " ", "b", "a", "s", "i", "c", "a",
    "l", "l", "y", ",", " ", "a", " ", "g", "r", "a", "p", "h", " ", "t", "h", "a",
    "t", " ", "h", "a", "s", " ", "n", "o", " ", "c", "y", "c", "l", "e", "s", ".">>

\* transcript_list samples: entries with text, start and (optional)
\* duration, the times in tenths of a second
CaptionLists ==
    {<<>>,
     <<[text |-> CaptionTextB, start |-> 0, duration |-> 41]>>,
     <<[text |-> CaptionTextB, start |-> 0, duration |-> 41],
       [text |-> CaptionTextB, start |-> 41, duration |-> 38]>>,
     <<[text |-> CaptionTextB, start |-> 0, duration |-> 41],
       [text |-> CaptionTextA, start |-> 41]>>,
     <<[text |-> CaptionTextA, start |-> 0, duration |-> 45],
       [text |-> CaptionTextA, start |-> 45, duration |-> 52]>>}

\* what one call of YouTubeTranscriptApi.get_transcript does
GetTranscriptOutcomes ==
    {[raises |-> e, list |-> <<>>] : e \in {"NoTranscriptFound", "TranscriptsDisabled", "Exception"}}
        \cup {[raises |-> "none", list |-> l] : l \in CaptionLists}

\* the outcomes of the successive get_transcript calls of one request: the
\* second call is made only after NoTranscriptFound
CaptionBehaviours ==
    {<<o>> : o \in {x \in GetTranscriptOutcomes : x.raises # "NoTranscriptFound"}}
        \cup {<<[raises |-> "NoTranscriptFound", list |-> <<>>], o>> : o \in GetTranscriptOutcomes}

\* int(last_entry['start'] + last_entry.get('duration', 0)), times in tenths
LastTimestamp(transcript_list) ==
    LET last_entry == transcript_list[Len(transcript_list)]
    IN  (last_entry.start
         + (IF "duration" \in DOMAIN last_entry THEN last_entry.duration ELSE 0)) \div 10

\* Method 1, the body of the inner try: whether it raised, and the
\* transcript and duration it returns
youtube_transcript_api(behaviour) ==
    LET outcome == behaviour[Len(behaviour)]
        transcript_list == outcome.list
        transcript_parts == [k \in 1..Len(transcript_list) |-> transcript_list[k].text]
    IN  IF outcome.raises # "none"
        THEN [raised |-> TRUE, transcript |-> <<>>, duration |-> 0]
        ELSE [raised |-> FALSE,
              transcript |-> Join(<<" ">>, transcript_parts),
              duration |-> IF transcript_list # <<>> THEN LastTimestamp(transcript_list) ELSE 0]

\* \d{2}:\d{2}:\d{2},\d{3} at s[i]
MatchSrtClock(s, i) ==
    /\ \A k \in {0, 1, 3, 4, 6, 7, 9, 10, 11} : At(s, i + k) \in Digits
    /\ At(s, i + 2) = ":"
    /\ At(s, i + 5) = ":"
    /\ At(s, i + 8) = ","

SrtArrow == <<" ", "-", "-", ">", " ">>

\* \d+\n\d{2}:\d{2}:\d{2},\d{3} --> \d{2}:\d{2}:\d{2},\d{3}\n at s[i]
MatchSrtCue(s, i) ==
    LET d == Run(s, i, Digits)
    IN  IF /\ d > 0
           /\ At(s, i + d) = "\n"
           /\ MatchSrtClock(s, i + d + 1)
           /\ MatchExact(s, i + d + 13, SrtArrow)
           /\ MatchSrtClock(s, i + d + 18)
           /\ At(s, i + d + 30) = "\n"
        THEN d + 31 ELSE 0

\* line.strip() is not empty
NonBlank(line) == Strip(line) # <<>>

\* _parse_srt(srt_content)
parse_srt(srt_content) ==
    LET text == ReSub([i \in 1..Len(srt_content) |-> MatchSrtCue(srt_content, i)], <<>>, srt_content)
        lines == SelectSeq(Split(text, "\n"), NonBlank)
        joined == Join(<<"\n">>, lines)
    IN  Strip([k \in 1..Len(joined) |-> IF joined[k] = "\n" THEN " " ELSE joined[k]])

SrtLong ==
    <<"1", "\n", "0", "0", ":", "0", "0", ":", "0", "0", ",", "0", "0", "0", " ", "-", "-",
    ">", " ", "0", "0", ":", "0", "0", ":", "0", "4", ",", "5", "0", "0", "\n", "U",
    "m", ",", " ", "t", "o", "d", "a", "y", " ", "w", "e", " ", "a", "r", "e", " ",
    "g", "o", "i", "n", "g", " ", "t", "o", " ", "t", "a", "l", "k", " ", "a", "b",
    "o", "u", "t", " ", "b", "i", "n", "a", "r", "y", " ", "t", "r", "e", "e", "s",
    ".", "\n", "\n", "2", "\n", "0", "0", ":", "0", "0", ":", "0", "4", ",", "5", "0",
    "0", " ", "-", "-", ">", " ", "0", "0", ":", "0", "0", ":", "0", "9", ",", "0",
    "0", "0", "\n", "U", "m", ",", " ", "t", "o", "d", "a", "y", " ", "w", "e", " ",
    "a", "r", "e", " ", "g", "o", "i", "n", "g", " ", "t", "o", " ", "t", "a", "l",
    "k", " ", "a", "b", "o", "u", "t", " ", "b", "i", "n", "a", "r", "y", " ", "t",
    "r", "e", "e", "s", ".", "\n">>

SrtShort ==
    <<"1", "\n", "0", "0", ":", "0", "0", ":", "0", "0", ",", "0", "0", "0", " ", "-", "-",
    ">", " ", "0", "0", ":", "0", "0", ":", "0", "2", ",", "0", "0", "0", "\n", "B",
    "o", "n", "j", "o", "u", "r", "\n">>

\* what the YouTube Data API answers to one request: an HttpError (403 or
\* another status), no video, no caption track, or the video's duration,
\* its caption tracks in order and the SRT text of each track
DataApiBehaviours ==
    {[error |-> e, video_found |-> FALSE, duration_iso |-> <<>>, captions |-> <<>>]
        : e \in {"HttpError403", "HttpError"}}
    \cup {[error |-> "none", video_found |-> FALSE, duration_iso |-> <<>>, captions |-> <<>>]}
    \cup {[error |-> "none", video_found |-> TRUE,
           duration_iso |-> <<"P", "T", "1", "5", "M", "3", "3", "S">>, captions |-> c]
             : c \in {<<>>,
                      <<[language |-> "fr", srt |-> SrtShort]>>,
                      <<[language |-> "fr", srt |-> SrtShort],
                        [language |-> "en-US", srt |-> SrtLong]>>}}

EnglishTags == {"en", "en-US", "en-GB"}

\* the caption track downloaded: the first English one, else the first
CaptionTrack(captions) ==
    LET english == {k \in 1..Len(captions) : captions[k].language \in EnglishTags}
    IN  IF english # {}
        THEN captions[CHOOSE k \in english : \A j \in english : k <= j]
        ELSE captions[1]

\* str(e) of the UnboundLocalError raised by the clause "except HttpError"
\* of _extract_via_youtube_api when the imports in its try block have failed
UnboundLocalErrorHttpError ==
    "cannot access local variable 'HttpError' where it is not associated with a value"

\* _extract_via_youtube_api(video_id, api_key): the exception it raises
\* (its message, innermost part last) or the transcript and duration.
\* googleapiclient tells whether the package can be imported: when it
\* cannot, the UnboundLocalError of the except clause leaves the function
\* before the API is asked anything.
extract_via_youtube_api(behaviour, googleapiclient) ==
    IF ~googleapiclient
    THEN [raised |-> TRUE, message |-> <<UnboundLocalErrorHttpError>>,
          transcript |-> <<>>, duration |-> 0]
    ELSE IF behaviour.error = "HttpError403"
    THEN [raised |-> TRUE, message |-> <<"YouTube API quota exceeded or invalid API key">>,
          transcript |-> <<>>, duration |-> 0]
    ELSE IF behaviour.error = "HttpError"
    THEN [raised |-> TRUE, message |-> <<"YouTube API error", "HttpError">>,
          transcript |-> <<>>, duration |-> 0]
    ELSE IF ~behaviour.video_found
    THEN [raised |-> TRUE,
          message |-> <<"Failed to extract captions via YouTube API", "Video not found">>,
          transcript |-> <<>>, duration |-> 0]
    ELSE IF behaviour.captions = <<>>
    THEN [raised |-> TRUE,
          message |-> <<"Failed to extract captions via YouTube API",
                        "No captions available for this video">>,
          transcript |-> <<>>, duration |-> 0]
    ELSE [raised |-> FALSE, message |-> <<>>,
          transcript |-> parse_srt(CaptionTrack(behaviour.captions).srt),
          duration |-> parse_iso_duration(behaviour.duration_iso)]

(***************************************************************************)
(* The service: module-level components and POST /analyze                  *)
(***************************************************************************)
HttpsScheme == <<"h", "t", "t", "p", "s", ":", "/", "/">>

\* str(request.youtube_url) of the requests posted: a URL that youtu.be/
\* resolves and a URL in which no pattern finds a video ID
RequestUrls ==
    {HttpsScheme \o UrlMarkers[2] \o UrlBodies[1],
     HttpsScheme \o UrlMarkers[2] \o UrlBodies[4]}

NoException == [type |-> "none", status |-> 0, message |-> <<>>]

\* raise Exception(message); the parts of a message are joined by ": "
Exception(message) == [type |-> "Exception", status |-> 0, message |-> message]

\* raise HTTPException(status_code, detail)
HTTPException(status_code, detail) ==
    [type |-> "HTTPException", status |-> status_code, message |-> detail]

\* the locals of a request that has just been received
EmptyFrame ==
    [endpoint |-> "none",
     video_id |-> <<>>,
     method_1 |-> "not_run",
     segments |-> 0,
     raw_transcript |-> <<>>,
     duration |-> 0,
     extracted |-> FALSE,
     spacy_load |-> "not_run",
     cleaned_transcript |-> <<>>,
     client_init |-> "not_run",
     completion |-> "none",
     provider_json |-> <<>>,
     analysis_result |-> <<>>,
     exc |-> NoException]

\* the fields AnalysisResponse requires, with the type of each: "str" is
\* str, "list" is List[str]
DeclaredFields ==
    [title |-> "str",
     subject_area |-> "str",
     difficulty_level |-> "str",
     key_concepts |-> "list",
     detailed_explanation |-> "str",
     learning_objectives |-> "list",
     examples_covered |-> "list",
     prerequisites |-> "list",
     key_takeaways |-> "list",
     summary |-> "str"]

\* the defaults analyze_content fills in
BackfilledDefaults ==
    [title |-> "Educational Video Content",
     subject_area |-> "General",
     difficulty_level |-> "Intermediate"]

\* the type of a value as AnalysisResponse validates it: values are the
\* defaults above, or stand for what the provider sent: "str", "list" (a
\* list whose elements are all strings, the empty list included),
\* "list_with_non_str" (a list with an element that is no string: a
\* number, null, an object), "null", "bool"
JsonType(value) ==
    IF value \in {BackfilledDefaults[k] : k \in DOMAIN BackfilledDefaults} THEN "str" ELSE value

\* the JSON object complete in every declared field
CompleteObject == DeclaredFields

\* f restricted to the keys in K
Restrict(f, K) == [k \in K |-> f[k]]

\* the JSON objects the provider may answer with: complete, one declared
\* field omitted, the three back-filled fields omitted, empty, one field
\* null, one list field with an element that is no string, complete with
\* a "success" key of its own, and complete with an "error" key that is a
\* list, a string or null
ProviderObjects ==
    {CompleteObject, Restrict(CompleteObject, {})}
        \cup {Restrict(CompleteObject, DOMAIN CompleteObject \ {k}) : k \in DOMAIN CompleteObject}
        \cup {Restrict(CompleteObject, DOMAIN CompleteObject \ DOMAIN BackfilledDefaults)}
        \cup {[CompleteObject EXCEPT !["summary"] = "null"]}
        \cup {[CompleteObject EXCEPT ![k] = "list_with_non_str"]
                 : k \in {"key_concepts", "examples_covered"}}
        \cup {[k \in DOMAIN CompleteObject \cup {"success"} |->
                  IF k = "success" THEN "bool" ELSE CompleteObject[k]]}
        \cup {[k \in DOMAIN CompleteObject \cup {"error"} |->
                  IF k = "error" THEN e ELSE CompleteObject[k]] : e \in {"list", "str", "null"}}

\* what client.chat.completions.create does: it raises, or the content of
\* its first choice is no JSON, JSON that is no object, or a JSON object
Completions ==
    {[kind |-> k, json |-> <<>>] : k \in {"raises", "not_json", "json_non_object"}}
        \cup {[kind |-> "json_object", json |-> o] : o \in ProviderObjects}

\* analyze_content, "Ensure all required fields are present"
BackfillDefaults(analysis_result) ==
    [k \in DOMAIN analysis_result \cup DOMAIN BackfilledDefaults |->
        IF k \in DOMAIN analysis_result THEN analysis_result[k] ELSE BackfilledDefaults[k]]

\* AnalysisResponse(**analysis_result, success=True) raises: success given
\* twice (TypeError), an error that is neither a string nor null, or a
\* required field missing or of the wrong type, a list with an element
\* that is no string included
ResponseConstructionFails(analysis_result) ==
    \/ "success" \in DOMAIN analysis_result
    \/ /\ "error" \in DOMAIN analysis_result
       /\ JsonType(analysis_result["error"]) \notin {"str", "null"}
    \/ \E k \in DOMAIN DeclaredFields :
          \/ k \notin DOMAIN analysis_result
          \/ JsonType(analysis_result[k]) # DeclaredFields[k]

\* the body of the response: the declared fields, success and error
ResponseBody(analysis_result) ==
    [k \in DOMAIN DeclaredFields \cup {"success", "error"} |->
        IF k = "success" THEN "true"
        ELSE IF k = "error"
             THEN (IF "error" \in DOMAIN analysis_result THEN analysis_result["error"] ELSE "null")
             ELSE analysis_result[k]]

MinTranscriptLen == 100

TooShortDetail == <<"Transcript too short or unavailable. Video may not have captions enabled.">>

\* if not raw_transcript or len(raw_transcript) < 100
TranscriptTooShort(raw_transcript) ==
    raw_transcript = <<>> \/ Len(raw_transcript) < MinTranscriptLen

\* ErrorResponse as it would be without the clause "except HTTPException:
\* raise": every exception becomes HTTP 500
ErrorResponseAlways500(exc) ==
    [status |-> 500, detail |-> <<"Analysis failed">> \o exc.message, body |-> <<>>]

\* ErrorResponse as it would be if a failure were reported in the body of
\* the response model (success=false, error=message)
ErrorResponseInBody(exc) ==
    IF exc.type = "HTTPException"
    THEN [status |-> exc.status, detail |-> exc.message, body |-> <<>>]
    ELSE [status |-> 200, detail |-> <<>>, body |-> [success |-> "false", error |-> "str"]]

\* the except clauses of analyze_video: an HTTPException is re-raised as it
\* is, every other exception becomes HTTP 500
ErrorResponse(exc) ==
    IF exc.type = "HTTPException"
    THEN [status |-> exc.status, detail |-> exc.message, body |-> <<>>]
    ELSE [status |-> 500, detail |-> <<"Analysis failed">> \o exc.message, body |-> <<>>]

\* str(e) of the UnboundLocalError raised by the except clause of Method 1
\* when the imports of Method 1 have failed
UnboundLocalErrorMessage ==
    "cannot access local variable 'TranscriptsDisabled' where it is not associated with a value"

\* where the handler goes on when extract_transcript has returned
AfterExtraction(endpoint) ==
    IF endpoint = "analyze" THEN "check_transcript" ELSE "test_clean"

\* the except clauses that an exception of the handler's try block reaches
ExceptClauses(endpoint) ==
    IF endpoint = "analyze" THEN "except" ELSE "test_except"

\* where extract_transcript goes when Method 1 has raised: the fallback if
\* api_key is set, else the final failure
AfterMethod1Failure(api_key) == IF api_key THEN "method_2" ELSE "except"

\* Groq(api_key=self.api_key)
GroqClient(instance) == [class |-> "Groq", instance |-> instance]

\* what _initialize_client does: the client is constructed only while
\* self.client is None, and the construction may raise
ClientInits == IF client = None THEN {"created", "raised"} ELSE {"cached"}

\* a bool in a JSON body
JsonBool(b) == IF b THEN "true" ELSE "false"

\* KeyMissing as it would be without the check of self.api_key
KeyMissingNever(api_key) == FALSE

\* analyze_content: if not self.api_key
KeyMissing(api_key) == ~api_key

\* AfterAnalysisFailure as it would be if a failed completion were asked
\* for again
AfterAnalysisFailureRetry == "chat_completion"

\* where an exception raised in analyze_content after the completion was
\* requested goes: through the except clauses of analyze_content to the
\* caller, analyze_video
AfterAnalysisFailure == "except"

\* Python values whose type matters to the code: a str and a tuple
Str(value) == [type |-> "str", value |-> value]

Tuple(items) == [type |-> "tuple", value |-> items]

\* re.sub(pattern, repl, string) accepts string; else it raises TypeError
IsStr(value) == value.type = "str"

ReSubTypeError == "expected string or bytes-like object, got 'tuple'"

PreviewLen == 500

(***************************************************************************)
(* Float arithmetic of the reduction percentage.  A natural number too     *)
(* large for one integer is the sequence of its digits in base Base, the   *)
(* least significant first and the most significant not 0; a float is      *)
(* m * 2^e with m such a number of at most 53 bits.                        *)
(***************************************************************************)
Base == 1024

DigitBits == 10

MantissaBits == 53

RECURSIVE BigOf(_)
\* the digits of the integer n >= 0
BigOf(n) == IF n = 0 THEN <<>> ELSE <<n % Base>> \o BigOf(n \div Base)

RECURSIVE BigToInt(_)
BigToInt(d) == IF d = <<>> THEN 0 ELSE Head(d) + Base * BigToInt(Tail(d))

RECURSIVE BigTrim(_)
\* d without its most significant zeros
BigTrim(d) ==
    IF d = <<>> THEN <<>>
    ELSE IF d[Len(d)] = 0 THEN BigTrim(SubSeq(d, 1, Len(d) - 1)) ELSE d

RECURSIVE BigTimesCarry(_, _, _)
\* d * k + carry
BigTimesCarry(d, k, carry) ==
    IF d = <<>> THEN BigOf(carry)
    ELSE LET t == Head(d) * k + carry
         IN  <<t % Base>> \o BigTimesCarry(Tail(d), k, t \div Base)

\* d * k, for an integer k of at most 2^20
BigTimes(d, k) == BigTrim(BigTimesCarry(d, k, 0))

RECURSIVE BigMinusBorrow(_, _, _)
BigMinusBorrow(a, b, borrow) ==
    IF a = <<>> THEN <<>>
    ELSE LET t == Head(a) - (IF b = <<>> THEN 0 ELSE Head(b)) - borrow
         IN  <<t % Base>> \o BigMinusBorrow(Tail(a), IF b = <<>> THEN <<>> ELSE Tail(b),
                                            IF t < 0 THEN 1 ELSE 0)

\* a - b, for a >= b
BigMinus(a, b) == BigTrim(BigMinusBorrow(a, b, 0))

\* a < b
BigLess(a, b) ==
    \/ Len(a) < Len(b)
    \/ /\ Len(a) = Len(b)
       /\ \E i \in 1..Len(a) :
             /\ a[i] < b[i]
             /\ \A j \in (i + 1)..Len(a) : a[j] = b[j]

RECURSIVE BigDivMod(_, _)
\* quotient and remainder of d by the integer k, 0 < k < 2^21
BigDivMod(d, k) ==
    IF d = <<>> THEN [q |-> <<>>, r |-> 0]
    ELSE LET high == BigDivMod(Tail(d), k)
             t == high.r * Base + Head(d)
         IN  [q |-> <<t \div k>> \o high.q, r |-> t % k]

\* the number of bits of d
BitLength(d) ==
    IF d = <<>> THEN 0
    ELSE DigitBits * (Len(d) - 1)
           + (CHOOSE b \in 1..DigitBits : 2^(b - 1) <= d[Len(d)] /\ d[Len(d)] < 2^b)

\* d * 2^s
BigShiftLeft(d, s) ==
    IF d = <<>> THEN <<>>
    ELSE [i \in 1..(s \div DigitBits) |-> 0] \o BigTimes(d, 2^(s % DigitBits))

\* the integer nearest to (d + f) / 2^s, a tie to the even one, where f is a
\* fraction of [0, 1) that is not 0 exactly if sticky
RoundHalfEven(d, s, sticky) ==
    IF s = 0 THEN d
    ELSE LET q == BigTrim(BigDivMod(SubSeq(d, (s \div DigitBits) + 1, Len(d)),
                                    2^(s % DigitBits)).q)
             remainder == BigMinus(d, BigShiftLeft(q, s))
             half == BigShiftLeft(<<1>>, s - 1)
             odd == q # <<>> /\ q[1] % 2 = 1
             up == \/ BigLess(half, remainder)
                   \/ remainder = half /\ (sticky \/ odd)
         IN  IF up THEN BigTimesCarry(q, 1, 1) ELSE q

\* the float nearest to (d + f) * 2^e, a tie to the even mantissa
RoundToFloat(d, e, sticky) ==
    LET s == IF BitLength(d) > MantissaBits THEN BitLength(d) - MantissaBits ELSE 0
    IN  [m |-> RoundHalfEven(d, s, sticky), e |-> e + s]

\* len(cleaned_transcript)/len(raw_transcript): the float nearest to the
\* quotient of the two integers
TrueDiv(cleaned_length, raw_length) ==
    LET s == MantissaBits + 2 + BitLength(BigOf(raw_length))
        n == BigDivMod(BigShiftLeft(BigOf(cleaned_length), s), raw_length)
    IN  RoundToFloat(BigTrim(n.q), -s, n.r # 0)

\* x * 100
FloatTimes100(x) == RoundToFloat(BigTimes(x.m, 100), x.e, FALSE)

\* 100 - x, as its sign and its magnitude
HundredMinus(x) ==
    LET e == IF x.e < 0 THEN x.e ELSE 0
        hundred == BigShiftLeft(BigOf(100), -e)
        m == BigShiftLeft(x.m, x.e - e)
        negative == BigLess(hundred, m)
    IN  [negative |-> negative,
         magnitude |-> RoundToFloat(IF negative THEN BigMinus(m, hundred)
                                    ELSE BigMinus(hundred, m), e, FALSE)]

\* round(x, 2) in hundredths: the multiple of 0.01 nearest to the float,
\* a tie to the even one
Round2(x) ==
    LET h == BigTimes(x.magnitude.m, 100)
        e == x.magnitude.e
        n == BigToInt(IF e < 0 THEN RoundHalfEven(h, -e, FALSE) ELSE BigShiftLeft(h, e))
    IN  IF x.negative THEN -n ELSE n

\* round(100 - (len(cleaned_transcript)/len(raw_transcript)*100), 2), in
\* hundredths of a percent, each operation rounded to a float as Python
\* rounds it
ReductionPercent(raw_length, cleaned_length) ==
    Round2(HundredMinus(FloatTimes100(TrueDiv(cleaned_length, raw_length))))

\* the diagnostic test_transcript_extraction returns
TestDiagnostic(raw_transcript, cleaned_transcript) ==
    [success |-> "true",
     raw_length |-> Len(raw_transcript),
     cleaned_length |-> Len(cleaned_transcript),
     reduction_percent |-> ReductionPercent(Len(raw_transcript), Len(cleaned_transcript)),
     preview |-> SubSeq(cleaned_transcript, 1,
                        IF Len(cleaned_transcript) < PreviewLen
                        THEN Len(cleaned_transcript) ELSE PreviewLen)]

(***************************************************************************)
(* The steps of analyze_video.  A handler has no await, so a request runs  *)
(* from its reception to its response before the next one is received.     *)
(***************************************************************************)
Init ==
    /\ arg = <<>>
    /\ ret = <<>>
    /\ pc = "idle"
    /\ env \in [YOUTUBE_API_KEY : BOOLEAN, GROQ_API_KEY : BOOLEAN,
               youtube_transcript_api : BOOLEAN, googleapiclient : BOOLEAN]
    /\ nlp = None
    /\ client = None
    /\ frame = EmptyFrame
    /\ log = <<>>

\* POST /analyze is received
ReceiveAnalyze ==
    /\ pc = "idle"
    /\ \E url \in RequestUrls : arg' = url
    /\ ret' = <<>>
    /\ frame' = [EmptyFrame EXCEPT !.endpoint = "analyze"]
    /\ log' = <<>>
    /\ pc' = "extract_transcript"
    /\ UNCHANGED <<env, nlp, client>>

\* GET /
GetRoot ==
    /\ pc = "idle"
    /\ arg' = <<>>
    /\ ret' = <<[status |-> 200, detail |-> <<>>,
                 body |-> [service |-> "NutzyCraft Pilot AI",
                           status |-> "running",
                           version |-> "1.0.0"]]>>
    /\ frame' = [EmptyFrame EXCEPT !.endpoint = "root"]
    /\ log' = <<>>
    /\ UNCHANGED <<pc, env, nlp, client>>

\* GET /health
GetHealth ==
    /\ pc = "idle"
    /\ arg' = <<>>
    /\ ret' = <<[status |-> 200, detail |-> <<>>,
                 body |-> [status |-> "healthy",
                           groq_configured |-> JsonBool(env.GROQ_API_KEY),
                           timestamp |-> "2026-01-28"]]>>
    /\ frame' = [EmptyFrame EXCEPT !.endpoint = "health"]
    /\ log' = <<>>
    /\ UNCHANGED <<pc, env, nlp, client>>

\* POST /test-transcript is received
ReceiveTestTranscript ==
    /\ pc = "idle"
    /\ \E url \in RequestUrls : arg' = url
    /\ ret' = <<>>
    /\ frame' = [EmptyFrame EXCEPT !.endpoint = "test_transcript"]
    /\ log' = <<>>
    /\ pc' = "extract_transcript"
    /\ UNCHANGED <<env, nlp, client>>

\* extract_transcript: the video ID
ExtractTranscript ==
    /\ pc = "extract_transcript"
    /\ log' = Append(log, "extract_transcript")
    /\ LET id == extract_video_id(arg)
       IN  IF id.raised = "ValueError"
           THEN /\ frame' = [frame EXCEPT !.exc =
                      Exception(<<"Invalid YouTube URL", "Could not extract video ID from URL", arg>>)]
                /\ pc' = ExceptClauses(frame.endpoint)
           ELSE /\ frame' = [frame EXCEPT !.video_id = id.value]
                /\ pc' = "method_1"
    /\ UNCHANGED <<arg, ret, env, nlp, client>>

\* extract_transcript, Method 1: youtube-transcript-api
Method1 ==
    /\ pc = "method_1"
    /\ IF ~env.youtube_transcript_api
       THEN \* the import raises ImportError, TranscriptsDisabled is left
            \* unbound, the except clause that names it raises
            \* UnboundLocalError, and the outer except clause wraps that
            /\ log' = log
            /\ frame' = [frame EXCEPT !.method_1 = "raised",
                                      !.exc = Exception(<<"Failed to extract transcript",
                                                          UnboundLocalErrorMessage>>)]
            /\ pc' = ExceptClauses(frame.endpoint)
       ELSE /\ log' = Append(log, "youtube_transcript_api")
            /\ \E behaviour \in CaptionBehaviours :
                  LET r == youtube_transcript_api(behaviour)
                  IN  IF ~r.raised
                      THEN /\ frame' = [frame EXCEPT !.method_1 = "returned",
                                                     !.segments = Len(behaviour[Len(behaviour)].list),
                                                     !.raw_transcript = r.transcript,
                                                     !.duration = r.duration,
                                                     !.extracted = TRUE]
                           /\ pc' = AfterExtraction(frame.endpoint)
                      ELSE /\ pc' = IF AfterMethod1Failure(env.YOUTUBE_API_KEY) = "except"
                                     THEN ExceptClauses(frame.endpoint)
                                     ELSE "method_2"
                           /\ frame' = IF pc' # "method_2"
                                       THEN [frame EXCEPT !.method_1 = "raised",
                                                          !.exc = Exception(
                                                <<"Failed to extract transcript",
                                                  "No captions/subtitles available for this video. Please configure YOUTUBE_API_KEY in .env for better reliability.">>)]
                                       ELSE [frame EXCEPT !.method_1 = "raised"]
    /\ UNCHANGED <<arg, ret, env, nlp, client>>

\* extract_transcript, Method 2: _extract_via_youtube_api
Method2 ==
    /\ pc = "method_2"
    /\ log' = Append(log, "youtube_data_api")
    /\ \E behaviour \in DataApiBehaviours :
          LET r == extract_via_youtube_api(behaviour, env.googleapiclient)
          IN  IF r.raised
              THEN /\ frame' = [frame EXCEPT !.exc =
                         Exception(<<"Failed to extract transcript">> \o r.message)]
                   /\ pc' = ExceptClauses(frame.endpoint)
              ELSE /\ frame' = [frame EXCEPT !.raw_transcript = r.transcript,
                                             !.duration = r.duration,
                                             !.extracted = TRUE]
                   /\ pc' = AfterExtraction(frame.endpoint)
    /\ UNCHANGED <<arg, ret, env, nlp, client>>

\* analyze_video: the transcript is checked
CheckTranscript ==
    /\ pc = "check_transcript"
    /\ IF TranscriptTooShort(frame.raw_transcript)
       THEN /\ frame' = [frame EXCEPT !.exc = HTTPException(400, TooShortDetail)]
            /\ pc' = "except"
       ELSE /\ frame' = frame
            /\ pc' = "clean_transcript"
    /\ UNCHANGED <<arg, ret, env, nlp, client, log>>

\* analyze_video, Step 2: nlp_preprocessor.clean_transcript
CleanStep ==
    /\ pc = "clean_transcript"
    /\ log' = Append(log, "clean_transcript")
    /\ \E behaviour \in SpacyBehaviours :
          LET r == clean_transcript(frame.raw_transcript,
                                    [ok |-> behaviour.run = "ok", text |-> behaviour.text])
          IN  /\ nlp' = AfterLoadSpacy(behaviour.load)
              /\ IF r.raised
                 THEN /\ frame' = [frame EXCEPT !.spacy_load = behaviour.load,
                                                !.exc = Exception(<<"division by zero">>)]
                      /\ pc' = "except"
                 ELSE /\ frame' = [frame EXCEPT !.spacy_load = behaviour.load,
                                                !.cleaned_transcript = r.text]
                      /\ pc' = "analyze_content"
    /\ UNCHANGED <<arg, ret, env, client>>

\* analyze_content: _initialize_client and the API key check
InitializeClient ==
    /\ pc = "analyze_content"
    /\ log' = Append(log, "analyze_content")
    /\ \E init \in ClientInits :
          IF init = "raised"
          THEN /\ client' = client
               /\ frame' = [frame EXCEPT !.client_init = init,
                                         !.exc = Exception(<<"Content analysis failed", "GroqError">>)]
               /\ pc' = "except"
          ELSE /\ client' = IF init = "created" THEN GroqClient(NewInstance(client)) ELSE client
               /\ IF KeyMissing(env.GROQ_API_KEY)
                  THEN /\ frame' = [frame EXCEPT !.client_init = init,
                                                 !.exc = Exception(
                              <<"Content analysis failed", "Groq API key not configured">>)]
                       /\ pc' = "except"
                  ELSE /\ frame' = [frame EXCEPT !.client_init = init]
                       /\ pc' = "chat_completion"
    /\ UNCHANGED <<arg, ret, env, nlp>>

\* analyze_content: the chat completion, json.loads and the back-fill
ChatCompletion ==
    /\ pc = "chat_completion"
    /\ log' = Append(log, "chat.completions.create")
    /\ \E completion \in Completions :
          IF completion.kind = "raises"
          THEN /\ frame' = [frame EXCEPT !.completion = completion.kind,
                                         !.exc = Exception(<<"Content analysis failed", "APIError">>)]
               /\ pc' = AfterAnalysisFailure
          ELSE IF completion.kind = "not_json"
          THEN /\ frame' = [frame EXCEPT !.completion = completion.kind,
                                         !.exc = Exception(
                                             <<"Invalid JSON response from Groq", "JSONDecodeError">>)]
               /\ pc' = AfterAnalysisFailure
          ELSE IF completion.kind = "json_non_object"
          THEN /\ frame' = [frame EXCEPT !.completion = completion.kind,
                                         !.exc = Exception(<<"Content analysis failed", "TypeError">>)]
               /\ pc' = AfterAnalysisFailure
          ELSE /\ frame' = [frame EXCEPT !.completion = completion.kind,
                                         !.provider_json = completion.json,
                                         !.analysis_result = BackfillDefaults(completion.json)]
               /\ pc' = "build_response"
    /\ UNCHANGED <<arg, ret, env, nlp, client>>

\* analyze_video, Step 4: the response is built and returned
BuildResponse ==
    /\ pc = "build_response"
    /\ IF ResponseConstructionFails(frame.analysis_result)
       THEN /\ frame' = [frame EXCEPT !.exc = Exception(<<"ValidationError">>)]
            /\ pc' = "except"
            /\ ret' = ret
       ELSE /\ frame' = frame
            /\ pc' = "idle"
            /\ ret' = <<[status |-> 200, detail |-> <<>>,
                         body |-> ResponseBody(frame.analysis_result)]>>
    /\ UNCHANGED <<arg, env, nlp, client, log>>

\* test_transcript_extraction: clean_transcript is called with what
\* extract_transcript returned, and the diagnostic is built
TestClean ==
    /\ pc = "test_clean"
    /\ log' = Append(log, "clean_transcript")
    /\ LET raw_transcript == Tuple(<<frame.raw_transcript, frame.duration>>)
       IN  IF ~IsStr(raw_transcript)
           THEN /\ frame' = [frame EXCEPT !.exc = Exception(<<ReSubTypeError>>)]
                /\ pc' = "test_except"
                /\ UNCHANGED <<ret, nlp>>
           ELSE \E behaviour \in SpacyBehaviours :
                  LET r == clean_transcript(raw_transcript.value,
                               [ok |-> behaviour.run = "ok", text |-> behaviour.text])
                  IN  /\ nlp' = AfterLoadSpacy(behaviour.load)
                      /\ IF r.raised
                         THEN /\ frame' = [frame EXCEPT !.spacy_load = behaviour.load,
                                                        !.exc = Exception(<<"division by zero">>)]
                              /\ pc' = "test_except"
                              /\ ret' = ret
                         ELSE /\ frame' = [frame EXCEPT !.spacy_load = behaviour.load,
                                                        !.cleaned_transcript = r.text]
                              /\ pc' = "idle"
                              /\ ret' = <<[status |-> 200, detail |-> <<>>,
                                           body |-> TestDiagnostic(raw_transcript.value, r.text)]>>
    /\ UNCHANGED <<arg, env, client>>

\* test_transcript_extraction: except Exception
TestExcept ==
    /\ pc = "test_except"
    /\ ret' = <<[status |-> 500, detail |-> frame.exc.message, body |-> <<>>]>>
    /\ pc' = "idle"
    /\ UNCHANGED <<arg, env, nlp, client, frame, log>>

\* analyze_video: except HTTPException / except Exception
Except ==
    /\ pc = "except"
    /\ ret' = <<ErrorResponse(frame.exc)>>
    /\ pc' = "idle"
    /\ UNCHANGED <<arg, env, nlp, client, frame, log>>

Next ==
    \/ GetRoot
    \/ GetHealth
    \/ ReceiveAnalyze
    \/ ReceiveTestTranscript
    \/ ExtractTranscript
    \/ Method1
    \/ Method2
    \/ CheckTranscript
    \/ CleanStep
    \/ InitializeClient
    \/ ChatCompletion
    \/ BuildResponse
    \/ Except
    \/ TestClean
    \/ TestExcept

Spec == Init /\ [][Next]_vars

(***************************************************************************)
(* Claims about POST /analyze                                              *)
(***************************************************************************)
\* the component was invoked for the request in progress
Invoked(component) == \E k \in 1..Len(log) : log[k] = component

\* the request received last has been answered
Answered == pc = "idle" /\ ret # <<>>

\* the request in progress, or answered last, is a POST /analyze
Analyze == frame.endpoint = "analyze"

\* extraction has returned a transcript the handler treats as unusable
ExtractedTooShort == frame.extracted /\ TranscriptTooShort(frame.raw_transcript)

\* C1: a request whose extraction succeeds with a transcript that is empty
\* or shorter than 100 characters goes from the check to the exception
\* clauses and ends with HTTP 400; clean_transcript, analyze_content and
\* the provider call are never invoked for it, and the 400 is not rewritten
\* into a 500
C1_TooShortEndsWith400 ==
    (Analyze /\ ExtractedTooShort) =>
        /\ pc \in {"check_transcript", "except", "idle"}
        /\ ~Invoked("clean_transcript")
        /\ ~Invoked("analyze_content")
        /\ ~Invoked("chat.completions.create")
        /\ pc = "except" => frame.exc = HTTPException(400, TooShortDetail)
        /\ pc = "idle" => ret = <<[status |-> 400, detail |-> TooShortDetail, body |-> <<>>]>>

\* a request with a transcript of 99 characters has been answered
C1_Witness ==
    /\ Analyze
    /\ Answered
    /\ frame.extracted
    /\ Len(frame.raw_transcript) = MinTranscriptLen - 1
    /\ ret[1].status = 400

\* the final failure of extract_transcript when Method 1 raises and no key
\* is configured
IsFinalExtractionFailure(exc) ==
    /\ exc.type = "Exception"
    /\ Len(exc.message) = 2
    /\ exc.message[1] = "Failed to extract transcript"

\* C2: Method 2 is attempted if and only if Method 1 has raised and
\* YOUTUBE_API_KEY is configured, and only after Method 1; when Method 1
\* returns, Method 2 is never attempted; when Method 1 raises and no key is
\* configured, one final failure is raised and Method 2 is not attempted
C2_OrderedFallback ==
    LET attempting == pc = "method_2" \/ Invoked("youtube_data_api")
    IN  /\ attempting <=> (frame.method_1 = "raised" /\ env.YOUTUBE_API_KEY)
        /\ attempting => /\ Invoked("youtube_transcript_api")
                         /\ \A j, k \in 1..Len(log) :
                               (log[j] = "youtube_transcript_api" /\ log[k] = "youtube_data_api")
                                   => j < k
        /\ frame.method_1 = "returned" => ~attempting /\ frame.extracted
        /\ (frame.method_1 = "raised" /\ ~env.YOUTUBE_API_KEY) =>
              /\ ~attempting
              /\ ~frame.extracted
              /\ pc \in {"except", "test_except", "idle"}
              /\ IsFinalExtractionFailure(frame.exc)

\* the part of C2 the code satisfies: the same, for a process in which the
\* package youtube_transcript_api can be imported
C2_OrderedFallbackWhenImported ==
    env.youtube_transcript_api =>
        LET attempting == pc = "method_2" \/ Invoked("youtube_data_api")
        IN  /\ attempting <=> (frame.method_1 = "raised" /\ env.YOUTUBE_API_KEY)
            /\ attempting => Invoked("youtube_transcript_api")
            /\ frame.method_1 = "returned" => ~attempting /\ frame.extracted
            /\ (frame.method_1 = "raised" /\ ~env.YOUTUBE_API_KEY) =>
                  /\ ~attempting
                  /\ ~frame.extracted
                  /\ IsFinalExtractionFailure(frame.exc)

\* what the code does when the package cannot be imported: Method 1 raises
\* and Method 2 is not attempted, whether or not the key is configured
C2_NoFallbackWhenNotImported ==
    (~env.youtube_transcript_api /\ frame.method_1 = "raised") =>
        /\ pc \in {"except", "test_except", "idle"}
        /\ ~Invoked("youtube_transcript_api")
        /\ ~Invoked("youtube_data_api")
        /\ frame.exc = Exception(<<"Failed to extract transcript", UnboundLocalErrorMessage>>)

\* Method 1 has raised, Method 2 has been attempted and has returned
C2_Witness ==
    /\ frame.method_1 = "raised"
    /\ env.YOUTUBE_API_KEY
    /\ Invoked("youtube_data_api")
    /\ frame.extracted

\* Method 1 has raised with no key configured, and the request has failed
C2_WitnessNoKey ==
    /\ frame.method_1 = "raised"
    /\ ~env.YOUTUBE_API_KEY
    /\ Answered
    /\ ret[1].status = 500

\* the provider's JSON object omits declared fields, and is sound in the
\* fields it has
OmitsDeclaredFields(json) ==
    /\ DOMAIN DeclaredFields \ DOMAIN json # {}
    /\ DOMAIN json \subseteq DOMAIN DeclaredFields
    /\ \A k \in DOMAIN json : json[k] = DeclaredFields[k]

\* C3: whenever the provider returns parseable JSON that omits declared
\* fields, every missing field is back-filled, so that all declared fields
\* are present in the result handed to the caller, and POST /analyze
\* returns a success response
C3_MissingFieldsBackfilled ==
    (Analyze /\ frame.completion = "json_object" /\ OmitsDeclaredFields(frame.provider_json)) =>
        /\ DOMAIN DeclaredFields \subseteq DOMAIN frame.analysis_result
        /\ frame.exc = NoException
        /\ Answered => ret[1].status = 200

\* the part of C3 the code satisfies: title, subject_area and
\* difficulty_level are back-filled, and the request succeeds when no other
\* field is missing
C3_ThreeFieldsBackfilled ==
    (Analyze /\ frame.completion = "json_object" /\ OmitsDeclaredFields(frame.provider_json)) =>
        /\ DOMAIN BackfilledDefaults \subseteq DOMAIN frame.analysis_result
        /\ \A k \in DOMAIN BackfilledDefaults \ DOMAIN frame.provider_json :
              frame.analysis_result[k] = BackfilledDefaults[k]
        /\ (Answered /\ DOMAIN DeclaredFields \ DOMAIN frame.provider_json
                            \subseteq DOMAIN BackfilledDefaults)
              => ret[1].status = 200

\* a stage of the pipeline has failed for the request in progress
StageFailed == frame.exc # NoException

\* C4: an answered request has exactly one of three outcomes: a success
\* response with all declared fields and success=true, HTTP 400 for the
\* too-short transcript, or HTTP 500 with a detail message; a request in
\* which a stage failed, the too-short case aside, has HTTP 500, and never
\* a response with a body
C4_ThreeOutcomes ==
    (Analyze /\ Answered) =>
        LET response == ret[1]
            success == /\ response.status = 200
                       /\ response.detail = <<>>
                       /\ DOMAIN DeclaredFields \subseteq DOMAIN response.body
                       /\ \A k \in DOMAIN DeclaredFields :
                             JsonType(response.body[k]) = DeclaredFields[k]
                       /\ response.body["success"] = "true"
            tooShort == /\ response.status = 400
                        /\ response.body = <<>>
                        /\ ExtractedTooShort
            error == /\ response.status = 500
                     /\ response.body = <<>>
                     /\ Len(response.detail) >= 2
                     /\ response.detail[1] = "Analysis failed"
        IN  /\ success \/ tooShort \/ error
            /\ StageFailed => ~success
            /\ (StageFailed /\ ~ExtractedTooShort) => error
            /\ ~StageFailed => success

\* the response could not be constructed from the provider's JSON, and the
\* request has been answered
C4_Witness ==
    /\ Analyze
    /\ Answered
    /\ frame.completion = "json_object"
    /\ StageFailed
    /\ ret[1].status = 500

\* a request has been answered with a success response
C4_WitnessSuccess ==
    /\ Analyze
    /\ Answered
    /\ ~StageFailed
    /\ ret[1].status = 200

(***************************************************************************)
(* Claims about POST /test-transcript                                      *)
(***************************************************************************)
TestTranscript == frame.endpoint = "test_transcript"

\* the keys of the diagnostic
DiagnosticKeys == {"success", "raw_length", "cleaned_length", "reduction_percent", "preview"}

\* C11: a POST /test-transcript request whose extraction succeeds with a
\* non-empty transcript is answered with the success diagnostic (raw
\* length, cleaned length, reduction percentage, preview of at most 500
\* characters) and not with HTTP 500
C11_TestTranscriptDiagnostic ==
    (TestTranscript /\ Answered /\ frame.extracted /\ frame.raw_transcript # <<>>) =>
        /\ ret[1].status = 200
        /\ DOMAIN ret[1].body = DiagnosticKeys
        /\ ret[1].body.raw_length = Len(frame.raw_transcript)
        /\ ret[1].body.cleaned_length = Len(frame.cleaned_transcript)
        /\ Len(ret[1].body.preview) <= PreviewLen

\* what the code does instead: every POST /test-transcript request is
\* answered with HTTP 500, whether extraction succeeded or not
C11_TestTranscriptAlways500 ==
    (TestTranscript /\ Answered) =>
        /\ ret[1].status = 500
        /\ frame.extracted => ret[1].detail = <<ReSubTypeError>>

(***************************************************************************)
(* Claims about the provider key and the shared clients                    *)
(***************************************************************************)
\* C12: while GROQ_API_KEY is absent the process serves GET / and
\* GET /health, the latter with groq_configured = false; every POST
\* /analyze that reaches analyze_content ends with HTTP 500, and no chat
\* completion is ever requested
C12_NoKeyNoCompletion ==
    ~env.GROQ_API_KEY =>
        /\ pc = "idle" => (ENABLED GetRoot /\ ENABLED GetHealth)
        /\ (frame.endpoint = "root" /\ Answered) =>
              ret[1].status = 200 /\ ret[1].body.status = "running"
        /\ (frame.endpoint = "health" /\ Answered) =>
              ret[1].status = 200 /\ ret[1].body.groq_configured = "false"
        /\ pc # "chat_completion"
        /\ ~Invoked("chat.completions.create")
        /\ (Analyze /\ Invoked("analyze_content")) =>
              /\ pc \in {"except", "idle"}
              /\ frame.exc.type = "Exception"
              /\ frame.exc.message[1] = "Content analysis failed"
              /\ Answered => ret[1].status = 500

\* without the key, a POST /analyze has reached analyze_content and has
\* been answered
C12_Witness ==
    /\ ~env.GROQ_API_KEY
    /\ Analyze
    /\ Invoked("analyze_content")
    /\ Answered
    /\ ret[1].status = 500

\* without the key, GET /health has been answered
C12_WitnessHealth ==
    /\ ~env.GROQ_API_KEY
    /\ frame.endpoint = "health"
    /\ Answered
    /\ ret[1].body.groq_configured = "false"

(***************************************************************************)
(* Claims about an empty caption list                                      *)
(***************************************************************************)
\* Method 1 has retrieved a caption list with zero segments
EmptyCaptionList == frame.method_1 = "returned" /\ frame.segments = 0

\* the "no captions available" failure of extract_transcript
NoCaptionsFailure ==
    Exception(<<"Failed to extract transcript",
                "No captions/subtitles available for this video. Please configure YOUTUBE_API_KEY in .env for better reliability.">>)

\* C13: when Method 1 retrieves a caption list with zero segments,
\* extract_transcript fails with an error other than the "no captions
\* available" failure, and does not return an empty transcript
C13_EmptyCaptionListFails ==
    EmptyCaptionList =>
        /\ ~frame.extracted
        /\ frame.exc.type = "Exception"
        /\ frame.exc # NoCaptionsFailure

\* what the code does instead: the empty transcript and duration 0 are
\* returned as a result, Method 2 is not tried, and POST /analyze answers
\* HTTP 400
C13_EmptyCaptionListReturned ==
    EmptyCaptionList =>
        /\ frame.extracted
        /\ frame.raw_transcript = <<>>
        /\ frame.duration = 0
        /\ ~Invoked("youtube_data_api")
        /\ (Analyze /\ Answered) => ret[1].status = 400

(***************************************************************************)
(* Claims about the lazily initialised clients                             *)
(***************************************************************************)
\* C14: over the requests of one process the spaCy model and the Groq
\* client are each constructed at most once: a reference that is set is
\* never replaced or reset, a call that finds it set reuses it, a failed
\* initialisation leaves it unset, and a call that finds it unset attempts
\* the initialisation
C14_ClientsConstructedOnce ==
    [][/\ nlp # None => nlp' = nlp
       /\ client # None => client' = client
       /\ nlp' # None => nlp'.instance = 1
       /\ client' # None => client'.instance = 1
       /\ (frame'.spacy_load # frame.spacy_load /\ frame'.spacy_load # "not_run") =>
             /\ frame'.spacy_load = "cached" <=> nlp # None
             /\ frame'.spacy_load \in {"OSError", "ImportError"} => nlp' = None
             /\ frame'.spacy_load \in {"loaded", "downloaded"} => nlp' = SpacyModel(1)
       /\ (frame'.client_init # frame.client_init /\ frame'.client_init # "not_run") =>
             /\ frame'.client_init = "cached" <=> client # None
             /\ frame'.client_init = "raised" => client' = None
             /\ frame'.client_init = "created" => client' = GroqClient(1)
      ]_vars

\* a request has reused the spaCy model and the Groq client that earlier
\* requests constructed
C14_Witness ==
    /\ frame.spacy_load = "cached"
    /\ frame.client_init = "cached"
    /\ nlp = SpacyModel(1)
    /\ client = GroqClient(1)

(***************************************************************************)
(* Claims about the chat completion                                        *)
(***************************************************************************)
\* the chat completions requested for the request in progress
CompletionCalls == {k \in 1..Len(log) : log[k] = "chat.completions.create"}

\* C15: a call of analyze_content requests at most one chat completion;
\* when the request raises or its answer is no valid JSON, no second one
\* is made and one error reaches the caller: an invalid-JSON failure for
\* malformed JSON, a content-analysis failure otherwise
C15_OneCompletionPerCall ==
    /\ Cardinality(CompletionCalls) <= 1
    /\ frame.completion \in {"raises", "not_json", "json_non_object"} =>
          /\ Cardinality(CompletionCalls) = 1
          /\ pc \in {"except", "idle"}
          /\ frame.exc.type = "Exception"
          /\ Len(frame.exc.message) = 2
          /\ frame.exc.message[1] = IF frame.completion = "not_json"
                                    THEN "Invalid JSON response from Groq"
                                    ELSE "Content analysis failed"
          /\ Answered => ret = <<[status |-> 500,
                                  detail |-> <<"Analysis failed">> \o frame.exc.message,
                                  body |-> <<>>]>>

\* the provider's answer was no JSON, and the request has been answered
C15_Witness ==
    /\ frame.completion = "not_json"
    /\ Answered
    /\ ret[1].status = 500

\* the chat completion raised, and the request has been answered
C15_WitnessRaises ==
    /\ frame.completion = "raises"
    /\ Answered
    /\ ret[1].status = 500

====
